---- MODULE Spec2Model ----
(***************************************************************************)
(* Model of Streamlit_table_editor/pages/table_editor.py: the batch data   *)
(* editor page.  A remote table is fetched into st.session_state, edited   *)
(* through an st.data_editor widget, the diff is captured by "Review       *)
(* Changes" (get_changes_from_editor), shown in a confirmation step and    *)
(* written back by "Confirm" (apply_changes) or dropped by "Cancel".       *)
(*                                                                         *)
(* Cell values are strings.  Row positions are 0-based as in Python; the   *)
(* sequences that hold rows are 1-based, so position i is element i + 1.   *)
(***************************************************************************)
EXTENDS Integers, Sequences, FiniteSets, TLC

(* ---------------------------------------------------------------------- *)
(* Bounds of the model                                                     *)
(* ---------------------------------------------------------------------- *)
\* total number of changes the user makes in the data editor in one run
MaxOps == 2
\* the auto-generated primary keys the remote table hands out are PkOrder[1..MaxPk]
MaxPk == 3

(* ---------------------------------------------------------------------- *)
(* Configuration and value domains                                         *)
(* ---------------------------------------------------------------------- *)
PK_COLUMN == "BATCH_ID"

\* The schema (line 34), cut down to the key, one text column and TIMESTAMP.
Columns == {"BATCH_ID", "BATCH_NAME", "TIMESTAMP"}

\* order_by(...).limit(100)
RowLimit == 100

\* Primary keys in ascending order; Rank gives the order used by order_by.
PkOrder == <<"k1", "k2", "k3", "k4", "k5", "k6", "k7", "k8">>

Rank(pk) ==
  IF \E n \in 1..Len(PkOrder) : PkOrder[n] = pk
  THEN CHOOSE n \in 1..Len(PkOrder) : PkOrder[n] = pk
  ELSE 0

\* Missing values: NaN / None of pandas, NaT of a datetime column, NULL of the table.
NaN == "NaN"
NaT == "NaT"
NULL == "NULL"

\* pd.isna
IsNa(v) == v \in {NaN, NaT}

\* Python's None for st.session_state.changes_to_confirm
None == [py |-> "None"]

\* An empty dict {}
EmptyDict == [c \in {} |-> NaN]

\* pd.Timestamp values, and what pd.to_datetime parses them from.
Timestamps == {"T1", "T2"}

ParseTable == [s1 |-> "T1", s2 |-> "T2"]

\* pd.to_datetime(v, errors='coerce') on one cell: a Timestamp stays, a string
\* that parses becomes its Timestamp, anything else (missing, garbage) is NaT.
ToDatetime(v) ==
  IF v \in Timestamps THEN v
  ELSE IF v \in DOMAIN ParseTable THEN ParseTable[v]
  ELSE NaT

(* ---------------------------------------------------------------------- *)
(* DataFrames: [columns, rows], a row being [index, cells]                 *)
(* ---------------------------------------------------------------------- *)
\* pd.DataFrame()
EmptyFrame == [columns |-> {}, rows |-> <<>>]

\* DataFrame.empty: true when any axis has length 0
DfEmpty(df) == Len(df.rows) = 0 \/ df.columns = {}

\* df[col] = pd.to_datetime(df[col], errors='coerce') when the column exists
CoerceTimestamp(df) ==
  IF "TIMESTAMP" \in df.columns
  THEN [df EXCEPT !.rows =
          [i \in 1..Len(df.rows) |->
             [df.rows[i] EXCEPT !.cells["TIMESTAMP"] = ToDatetime(@)]]]
  ELSE df

\* pd.DataFrame(list of dicts): the columns are the union of the keys, a key a
\* dict lacks is NaN, the index is 0 .. n-1.
UnionKeys(dicts) == UNION {DOMAIN dicts[i] : i \in 1..Len(dicts)}

FrameFromRecords(dicts) ==
  [columns |-> UnionKeys(dicts),
   rows |-> [i \in 1..Len(dicts) |->
               [index |-> i - 1,
                cells |-> [c \in UnionKeys(dicts) |->
                             IF c \in DOMAIN dicts[i] THEN dicts[i][c] ELSE NaN]]]]

\* df.loc[labels] for a list of index labels: the rows carrying each label, in
\* the order of the labels (a copy).
RECURSIVE LocRows(_, _)
LocRows(rows, labels) ==
  IF labels = <<>> THEN <<>>
  ELSE SelectSeq(rows, LAMBDA r : r.index = Head(labels)) \o LocRows(rows, Tail(labels))

Loc(df, labels) == [columns |-> df.columns, rows |-> LocRows(df.rows, labels)]

\* A faulty variant of SetLoc, df[col] = v: the label is ignored and the whole
\* column is assigned
SetLocWholeColumn(df, label, col, v) ==
  [columns |-> df.columns \cup {col},
   rows |-> [i \in 1..Len(df.rows) |->
               [index |-> df.rows[i].index,
                cells |-> [c \in df.columns \cup {col} |->
                             IF c = col THEN v
                             ELSE IF c \in df.columns THEN df.rows[i].cells[c]
                             ELSE NaN]]]]

\* df.loc[label, col] = v: assigns the cell in every row carrying the label;
\* a column the frame lacks is added, NaN elsewhere.
SetLoc(df, label, col, v) ==
  [columns |-> df.columns \cup {col},
   rows |-> [i \in 1..Len(df.rows) |->
               [index |-> df.rows[i].index,
                cells |-> [c \in df.columns \cup {col} |->
                             IF c = col /\ df.rows[i].index = label THEN v
                             ELSE IF c \in df.columns THEN df.rows[i].cells[c]
                             ELSE NaN]]]]

\* df.drop(columns=[col], errors='ignore')
DropColumn(df, col) ==
  [columns |-> df.columns \ {col},
   rows |-> [i \in 1..Len(df.rows) |->
               [index |-> df.rows[i].index,
                cells |-> [c \in df.columns \ {col} |-> df.rows[i].cells[c]]]]]

\* original_df.index[i] for a 0-based position i
IndexAt(df, i) == df.rows[i + 1].index

(* ---------------------------------------------------------------------- *)
(* The remote table: a set of rows [rid, cells].  rid is the row's         *)
(* identity, the number of the auto-generated key it was created with.     *)
(* ---------------------------------------------------------------------- *)
CreatedPk(rid) == PkOrder[rid]

\* to_pandas on one cell: NULL becomes NaT in the datetime column, None/NaN elsewhere
FromSnow(c, v) == IF v = NULL THEN (IF c = "TIMESTAMP" THEN NaT ELSE NaN) ELSE v

\* the value sent to the table for one cell: a missing value is None (NULL), a
\* Timestamp goes through to_pydatetime and is stored as the same instant
ToSnow(v) == IF IsNa(v) THEN NULL ELSE v

\* the rows of the table ordered by primary key ascending
RowBefore(r, s) ==
  \/ Rank(r.cells[PK_COLUMN]) < Rank(s.cells[PK_COLUMN])
  \/ Rank(r.cells[PK_COLUMN]) = Rank(s.cells[PK_COLUMN]) /\ r.rid < s.rid

RECURSIVE OrderByPk(_)
OrderByPk(tbl) ==
  IF tbl = {} THEN <<>>
  ELSE LET first == CHOOSE r \in tbl : \A s \in tbl \ {r} : RowBefore(r, s)
       IN <<first>> \o OrderByPk(tbl \ {first})

Limit(rows, n) == SubSeq(rows, 1, IF Len(rows) < n THEN Len(rows) ELSE n)

\* get_data: the first 100 rows by primary key, as a DataFrame indexed by the key
\* (set_index(pk_column, drop=False)); TIMESTAMP goes through pd.to_datetime.
get_data(tbl) ==
  LET fetched == Limit(OrderByPk(tbl), RowLimit)
  IN CoerceTimestamp(
       [columns |-> Columns,
        rows |-> [i \in 1..Len(fetched) |->
                    [index |-> fetched[i].cells[PK_COLUMN],
                     cells |-> [c \in Columns |-> FromSnow(c, fetched[i].cells[c])]]]])

(* ---------------------------------------------------------------------- *)
(* get_changes_from_editor                                                 *)
(* ---------------------------------------------------------------------- *)
\* the inner loop of lines 68-69 for one edited row
RECURSIVE AssignCells(_, _, _, _)
AssignCells(df, pk_val, changes_for_row, cols) ==
  IF cols = {} THEN df
  ELSE LET col_name == CHOOSE c \in cols : TRUE
       IN AssignCells(SetLoc(df, pk_val, col_name, changes_for_row[col_name]),
                      pk_val, changes_for_row, cols \ {col_name})

\* the loop of lines 66-69 over edited_rows.items(), from entry k on
RECURSIVE ApplyEdits(_, _, _, _)
ApplyEdits(new_edited, original_df, edited_rows, k) ==
  IF k > Len(edited_rows) THEN new_edited
  ELSE ApplyEdits(
         AssignCells(new_edited, IndexAt(original_df, edited_rows[k].idx),
                     edited_rows[k].changes, DOMAIN edited_rows[k].changes),
         original_df, edited_rows, k + 1)

\* session_widgets maps each widget key present in st.session_state to the
\* widget's change description [added_rows, edited_rows, deleted_rows];
\* edited_rows is a dict in insertion order: a sequence of [idx, changes].
get_changes_from_editor(editor_key, session_widgets, original_df) ==
  IF editor_key \notin DOMAIN session_widgets THEN None
  ELSE
    LET changes == session_widgets[editor_key]
        added_rows == changes.added_rows
        edited_rows == changes.edited_rows
        deleted_rows_indices == changes.deleted_rows
        added_df == CoerceTimestamp(FrameFromRecords(added_rows))
        edited_pks == [k \in 1..Len(edited_rows) |->
                         IndexAt(original_df, edited_rows[k].idx)]
        original_edited == Loc(original_df, edited_pks)
        new_edited == CoerceTimestamp(
                        ApplyEdits(original_edited, original_df, edited_rows, 1))
        deleted_pks == [k \in 1..Len(deleted_rows_indices) |->
                          IndexAt(original_df, deleted_rows_indices[k])]
    IN [added |-> added_df,
        edited |-> IF Len(edited_rows) > 0
                   THEN [original |-> original_edited, new |-> new_edited]
                   ELSE EmptyDict,
        deleted |-> IF Len(deleted_rows_indices) > 0
                    THEN Loc(original_df, deleted_pks)
                    ELSE EmptyFrame]

(* ---------------------------------------------------------------------- *)
(* apply_changes                                                           *)
(* An operation sent to the table is logged as [op, where, payload, ok, n]:*)
(* where = the keys of its predicate, payload = the values it carries,     *)
(* ok = it did not raise, n = the row count it reported.  A failing        *)
(* operation raises and leaves the table as it was.  fail says which       *)
(* operations raise: [delete, update (positions in the edited frame),      *)
(* insert].                                                                *)
(* ---------------------------------------------------------------------- *)
NewResults == [added |-> 0, edited |-> 0, deleted |-> 0, errors |-> <<>>]

Op(op, where, payload, ok, n) ==
  [op |-> op, where |-> where, payload |-> payload, ok |-> ok, n |-> n]

\* df[col].tolist()
ColumnValues(df, col) == [i \in 1..Len(df.rows) |-> df.rows[i].cells[col]]

SeqRange(s) == {s[i] : i \in 1..Len(s)}

\* lines 86-90; an exception here is not caught locally
Deletions(st, changes, fail) ==
  IF DfEmpty(changes.deleted) THEN st
  ELSE
    LET deleted_ids == ColumnValues(changes.deleted, PK_COLUMN)
        hit == {r \in st.table : r.cells[PK_COLUMN] \in SeqRange(deleted_ids)}
    IN IF Len(deleted_ids) = 0 THEN st
       ELSE IF fail.delete
       THEN [st EXCEPT !.ops = Append(@, Op("delete", deleted_ids, <<>>, FALSE, 0)),
                       !.raised = TRUE]
       ELSE [st EXCEPT !.table = @ \ hit,
                       !.ops = Append(@, Op("delete", deleted_ids, <<>>, TRUE,
                                            Cardinality(hit))),
                       !.results.deleted = Cardinality(hit)]

\* A faulty variant of update_dict: the key column is not dropped
update_dict_with_pk(columns, row) ==
  [c \in columns |-> ToSnow(row.cells[c])]

\* lines 95-98: the row without the key column, missing values as None
update_dict(columns, row) ==
  [c \in columns \ {PK_COLUMN} |-> ToSnow(row.cells[c])]

\* snow_table.update(assignments, col(pk) == pk_id) on one row of the table
Assign(r, assignments) ==
  [r EXCEPT !.cells = [c \in Columns |->
                         IF c \in DOMAIN assignments THEN assignments[c] ELSE @[c]]]

\* A faulty variant of Updates: the first failing update ends the loop
RECURSIVE UpdatesStopAtFailure(_, _, _, _)
UpdatesStopAtFailure(st, edited_df, i, fail) ==
  IF i > Len(edited_df.rows) THEN st
  ELSE
    LET row == edited_df.rows[i]
        pk_id == row.index
        assignments == [c \in edited_df.columns \ {PK_COLUMN} |-> ToSnow(row.cells[c])]
        hit == {r \in st.table : r.cells[PK_COLUMN] = pk_id}
    IN IF i \in fail.update
       THEN [st EXCEPT !.ops = Append(@, Op("update", <<pk_id>>, <<assignments>>,
                                            FALSE, 0)),
                       !.results.errors =
                          Append(@, [kind |-> "Update", pk |-> pk_id])]
       ELSE UpdatesStopAtFailure(
              [st EXCEPT !.table = {IF r \in hit
                                    THEN [r EXCEPT !.cells =
                                            [c \in Columns |->
                                               IF c \in DOMAIN assignments
                                               THEN assignments[c] ELSE @[c]]]
                                    ELSE r : r \in @},
                         !.ops = Append(@, Op("update", <<pk_id>>, <<assignments>>,
                                              TRUE, Cardinality(hit))),
                         !.results.edited = @ + Cardinality(hit)],
              edited_df, i + 1, fail)

\* lines 94-102: one update per row of the edited frame, each in its own try
RECURSIVE Updates(_, _, _, _)
Updates(st, edited_df, i, fail) ==
  IF i > Len(edited_df.rows) THEN st
  ELSE
    LET row == edited_df.rows[i]
        pk_id == row.index
        assignments == update_dict(edited_df.columns, row)
        hit == {r \in st.table : r.cells[PK_COLUMN] = pk_id}
        next ==
          IF i \in fail.update
          THEN [st EXCEPT !.ops = Append(@, Op("update", <<pk_id>>, <<assignments>>,
                                               FALSE, 0)),
                          !.results.errors =
                             Append(@, [kind |-> "Update", pk |-> pk_id])]
          ELSE [st EXCEPT !.table = {IF r \in hit THEN Assign(r, assignments) ELSE r
                                       : r \in @},
                          !.ops = Append(@, Op("update", <<pk_id>>, <<assignments>>,
                                               TRUE, Cardinality(hit))),
                          !.results.edited = @ + Cardinality(hit)]
    IN Updates(next, edited_df, i + 1, fail)

\* the row the table stores for one inserted row: a key the insert does not
\* supply is auto-generated, a column it does not carry is NULL
InsertedRow(rid, columns, cells) ==
  [rid |-> rid,
   cells |-> [c \in Columns |->
                IF c \in columns
                THEN (IF c = PK_COLUMN /\ IsNa(cells[c]) THEN CreatedPk(rid)
                      ELSE ToSnow(cells[c]))
                ELSE IF c = PK_COLUMN THEN CreatedPk(rid) ELSE NULL]]

\* line 105
added_df_for_insert(added) == DropColumn(added, PK_COLUMN)

\* lines 104-110
Additions(st, changes, fail) ==
  IF DfEmpty(changes.added) THEN st
  ELSE
    LET to_add == added_df_for_insert(changes.added)
        n == Len(to_add.rows)
        payload == [i \in 1..n |-> to_add.rows[i].cells]
    IN IF fail.insert
       THEN [st EXCEPT !.ops = Append(@, Op("insert", <<>>, payload, FALSE, 0)),
                       !.results.errors = Append(@, [kind |-> "Add", pk |-> NaN])]
       ELSE [st EXCEPT !.table = @ \cup {InsertedRow(st.next_pk + i - 1, to_add.columns,
                                                     to_add.rows[i].cells)
                                           : i \in 1..n},
                       !.next_pk = @ + n,
                       !.ops = Append(@, Op("insert", <<>>, payload, TRUE, n)),
                       !.results.added = n]

\* A faulty variant of apply_changes: the updates are issued before the delete
apply_changes_updates_first(tbl, next, changes, fail) ==
  LET s0 == [table |-> tbl, next_pk |-> next, ops |-> <<>>,
             results |-> NewResults, raised |-> FALSE]
      s1 == IF changes.edited # EmptyDict
            THEN Updates(s0, changes.edited.new, 1, fail)
            ELSE s0
      s2 == Deletions(s1, changes, fail)
  IN IF s2.raised
     THEN [s2 EXCEPT !.results.errors = Append(@, [kind |-> "General", pk |-> NaN])]
     ELSE Additions(s2, changes, fail)

\* lines 80-112.  Returns the table afterwards, the next auto-generated key,
\* the operations issued in order, and the results record.
apply_changes(tbl, next, changes, fail) ==
  LET s0 == [table |-> tbl, next_pk |-> next, ops |-> <<>>,
             results |-> NewResults, raised |-> FALSE]
      s1 == Deletions(s0, changes, fail)
  IN IF s1.raised
     THEN [s1 EXCEPT !.results.errors = Append(@, [kind |-> "General", pk |-> NaN])]
     ELSE Additions(
            IF changes.edited # EmptyDict
            THEN Updates(s1, changes.edited.new, 1, fail)
            ELSE s1,
            changes, fail)

(* ---------------------------------------------------------------------- *)
(* style_changed_cells                                                     *)
(* ---------------------------------------------------------------------- *)
Yellow == "background-color: #ffff99"
Red == "background-color: #ffcccc"

\* Python's new_val != original_val: NaN and NaT differ from everything
PyNotEqual(a, b) == IF IsNa(a) \/ IsNa(b) THEN TRUE ELSE a # b

\* original_df.reindex(new_df.index): for each label of the new index the
\* original row carrying it, or a row of NaN when there is none
Reindex(original_df, new_index) ==
  [columns |-> original_df.columns,
   rows |-> [i \in 1..Len(new_index) |->
               IF \E j \in 1..Len(original_df.rows) :
                    original_df.rows[j].index = new_index[i]
               THEN original_df.rows[CHOOSE j \in 1..Len(original_df.rows) :
                                       original_df.rows[j].index = new_index[i]]
               ELSE [index |-> new_index[i],
                     cells |-> [c \in original_df.columns |-> NaN]]]]

\* A faulty variant of CellStyle: the test for two missing values is left out
CellStyleNoIsNa(new_val, original_comp, i, col_name) ==
  IF col_name \notin original_comp.columns THEN Red
  ELSE IF PyNotEqual(new_val, original_comp.rows[i].cells[col_name]) THEN Yellow
  ELSE ""

\* lines 123-136 for one cell
CellStyle(new_val, original_comp, i, col_name) ==
  IF col_name \notin original_comp.columns THEN Red
  ELSE LET original_val == original_comp.rows[i].cells[col_name]
           changed == IF IsNa(new_val) /\ IsNa(original_val) THEN FALSE
                      ELSE PyNotEqual(new_val, original_val)
       IN IF changed THEN Yellow ELSE ""

style_changed_cells(new_df, original_df) ==
  LET original_comp ==
        Reindex(original_df, [i \in 1..Len(new_df.rows) |-> new_df.rows[i].index])
  IN [columns |-> new_df.columns,
      rows |-> [i \in 1..Len(new_df.rows) |->
                  [index |-> new_df.rows[i].index,
                   cells |-> [c \in new_df.columns |->
                                CellStyle(new_df.rows[i].cells[c], original_comp, i, c)]]]]

(* ---------------------------------------------------------------------- *)
(* The page: session state, the editor widget, the remote table            *)
(* ---------------------------------------------------------------------- *)
VARIABLES
  table,              \* the remote table TABLE_NAME
  next_pk,            \* number of the next auto-generated primary key
  original_data,      \* st.session_state.original_data
  show_confirmation,  \* st.session_state.show_confirmation
  changes_to_confirm, \* st.session_state.changes_to_confirm
  editor_instance_id, \* st.session_state.editor_instance_id
  session_widgets,    \* st.session_state[f"{EDITOR_KEY}_{id}"], per id present
  event,              \* "confirm" / "cancel" when the last user action ran that
                      \* handler, "none" otherwise
  ops,                \* the operations that run issued against the table
  results,            \* the results record that run displayed
  applied,            \* what that run's apply_changes was given and the session
                      \* state it was clicked in (None if it called none)
  reviewed,           \* the editor's change description at the latest Review
                      \* whose diff is still pending (None if none)
  n_ops               \* editor changes made so far

vars == <<table, next_pk, original_data, show_confirmation, changes_to_confirm,
          editor_instance_id, session_widgets, event, ops, results, applied,
          reviewed, n_ops>>

\* a data_editor with no pending change
FreshWidget == [added_rows |-> <<>>, edited_rows |-> <<>>, deleted_rows |-> <<>>]

InitialTable ==
  {[rid |-> 1, cells |-> [BATCH_ID |-> "k1", BATCH_NAME |-> "a", TIMESTAMP |-> "T1"]],
   [rid |-> 2, cells |-> [BATCH_ID |-> "k2", BATCH_NAME |-> NULL, TIMESTAMP |-> NULL]]}

\* lines 145-169 on the first run: the table is fetched, the editor is rendered
Init ==
  /\ table = InitialTable
  /\ next_pk = 3
  /\ original_data = get_data(InitialTable)
  /\ show_confirmation = FALSE
  /\ changes_to_confirm = None
  /\ editor_instance_id = 0
  /\ session_widgets = (0 :> FreshWidget)
  /\ event = "none"
  /\ ops = <<>>
  /\ results = NewResults
  /\ applied = None
  /\ reviewed = None
  /\ n_ops = 0

current_key == editor_instance_id

\* a script run that calls no apply_changes
NoWrite ==
  /\ ops' = <<>>
  /\ results' = NewResults
  /\ applied' = None
  /\ UNCHANGED <<table, next_pk>>

(* The user changes the data editor (lines 161-169).  The widget records    *)
(* the change under the current key; the script reruns and runs no handler. *)
EditValues ==
  [BATCH_ID |-> {"k8"}, BATCH_NAME |-> {"a"}, TIMESTAMP |-> {"s1", "bad"}]

AddedEntries ==
  {EmptyDict, [BATCH_NAME |-> "a"], [TIMESTAMP |-> "bad"],
   [BATCH_ID |-> "k8", TIMESTAMP |-> "s1"]}

Positions == 0 .. (Len(original_data.rows) - 1)

EditorChange(widget) ==
  /\ n_ops < MaxOps
  /\ n_ops' = n_ops + 1
  /\ session_widgets' = [session_widgets EXCEPT ![current_key] = widget]
  /\ event' = "none"
  /\ NoWrite
  /\ UNCHANGED <<original_data, show_confirmation, changes_to_confirm,
                 editor_instance_id, reviewed>>

EditCell ==
  \E i \in Positions, c \in Columns :
    \E v \in EditValues[c] :
      LET w == session_widgets[current_key]
          er == w.edited_rows
      IN /\ i \notin SeqRange(w.deleted_rows)
         /\ EditorChange(
              [w EXCEPT !.edited_rows =
                 IF \E k \in 1..Len(er) : er[k].idx = i
                 THEN [k \in 1..Len(er) |->
                         IF er[k].idx = i
                         THEN [idx |-> i, changes |-> (c :> v) @@ er[k].changes]
                         ELSE er[k]]
                 ELSE Append(er, [idx |-> i, changes |-> (c :> v)])])

AddRow ==
  \E d \in AddedEntries :
    EditorChange([session_widgets[current_key] EXCEPT !.added_rows = Append(@, d)])

DeleteRow ==
  \E i \in Positions :
    /\ i \notin SeqRange(session_widgets[current_key].deleted_rows)
    /\ EditorChange([session_widgets[current_key] EXCEPT !.deleted_rows = Append(@, i)])

\* line 177
NoChangesDetected(changes) ==
  DfEmpty(changes.added) /\ changes.edited = EmptyDict /\ DfEmpty(changes.deleted)

\* lines 190-222
has_changes(changes) ==
  \/ ~DfEmpty(changes.deleted)
  \/ ~DfEmpty(changes.added)
  \/ changes.edited # EmptyDict

\* lines 171-183: the "Review Changes" button
Review ==
  LET changes == get_changes_from_editor(current_key, session_widgets, original_data)
  IN /\ changes_to_confirm' = changes
     /\ show_confirmation' =
          IF changes = None THEN show_confirmation   \* line 177 raises TypeError
          ELSE IF NoChangesDetected(changes) THEN FALSE
          ELSE TRUE
     /\ reviewed' = IF changes = None THEN None ELSE session_widgets[current_key]
     /\ event' = "none"
     /\ NoWrite
     /\ UNCHANGED <<original_data, editor_instance_id, session_widgets, n_ops>>

\* line 186 and line 225: the confirmation step with its two buttons is shown
ConfirmationShown ==
  /\ show_confirmation
  /\ changes_to_confirm # None
  /\ has_changes(changes_to_confirm)

\* A faulty variant of NextEditor: the key is not changed, so the editor keeps
\* its pending changes
NextEditorSameKey == UNCHANGED <<editor_instance_id, session_widgets>>

\* lines 241-244 / 256-259 and the rerun: the current key is dropped and the
\* editor is rendered under the next key
NextEditor ==
  /\ editor_instance_id' = editor_instance_id + 1
  /\ session_widgets' = ((editor_instance_id + 1) :> FreshWidget)

\* A faulty variant of ConfirmedDiff: the diff is taken from the editor again
\* at the click
ConfirmedDiffFromEditor ==
  get_changes_from_editor(current_key, session_widgets, original_data)

\* the diff the Confirm handler hands to apply_changes (line 187, line 232)
ConfirmedDiff == changes_to_confirm

\* which operations of a diff can raise: any of those apply_changes issues; an
\* insert that needs more keys than the table has left to hand out always does
FailChoices(changes) ==
  [delete : IF DfEmpty(changes.deleted) THEN {FALSE} ELSE BOOLEAN,
   update : SUBSET (IF changes.edited = EmptyDict THEN {}
                    ELSE 1..Len(changes.edited.new.rows)),
   insert : IF DfEmpty(changes.added) THEN {FALSE}
            ELSE IF next_pk + Len(changes.added.rows) > MaxPk + 1 THEN {TRUE}
            ELSE BOOLEAN]

\* lines 230-247: the "Confirm and Save Changes" button.  When the re-fetch of
\* line 236 fails, get_data's handler (lines 44-46) raises KeyError from
\* pd.DataFrame().set_index(PK_COLUMN): the run ends there, with the session
\* state as it was.
Confirm ==
  /\ ConfirmationShown
  /\ \E fail \in FailChoices(ConfirmedDiff), fetch_fails \in BOOLEAN :
       LET done == apply_changes(table, next_pk, ConfirmedDiff, fail)
       IN /\ table' = done.table
          /\ next_pk' = done.next_pk
          /\ ops' = done.ops
          /\ results' = done.results
          /\ applied' = [diff |-> ConfirmedDiff,
                         instance_before |-> editor_instance_id,
                         original_before |-> original_data,
                         shown |-> show_confirmation,
                         reviewed |-> reviewed,
                         edited_since |-> session_widgets[current_key] # reviewed]
          /\ IF fetch_fails
             THEN UNCHANGED <<original_data, show_confirmation, changes_to_confirm,
                              editor_instance_id, session_widgets, reviewed>>
             ELSE /\ original_data' = get_data(done.table)
                  /\ show_confirmation' = FALSE
                  /\ changes_to_confirm' = None
                  /\ reviewed' = None
                  /\ NextEditor
  /\ event' = "confirm"
  /\ UNCHANGED n_ops

\* lines 249-261: the "Cancel" button.  It is on the page unless the last run
\* ended inside the Confirm handler, before the second column was rendered.
Cancel ==
  /\ ConfirmationShown
  /\ event # "confirm"
  /\ show_confirmation' = FALSE
  /\ changes_to_confirm' = None
  /\ reviewed' = None
  /\ NextEditor
  /\ event' = "cancel"
  /\ NoWrite
  /\ UNCHANGED <<original_data, n_ops>>

Next == EditCell \/ AddRow \/ DeleteRow \/ Review \/ Confirm \/ Cancel

Spec == Init /\ [][Next]_vars

(* ====================================================================== *)
(* Properties                                                              *)
(* ====================================================================== *)
\* the run that just ended executed the Confirm handler
Confirmed == event = "confirm" /\ applied # None

OpsOf(kind) == SelectSeq(ops, LAMBDA o : o.op = kind)

AllOk == \A k \in 1..Len(ops) : ops[k].ok

Failed == {k \in 1..Len(ops) : ~ops[k].ok}

\* the diff has edits
HasEdits(diff) == diff.edited # EmptyDict

EditedCount(diff) == IF HasEdits(diff) THEN Len(diff.edited.new.rows) ELSE 0

RECURSIVE SumN(_)
SumN(s) == IF s = <<>> THEN 0 ELSE (IF Head(s).ok THEN Head(s).n ELSE 0) + SumN(Tail(s))

(* ---------------------------------------------------------------------- *)
\* C1: an operation reaches the remote table only in a run of the Confirm
\* handler, clicked while the confirmation step was shown, and the diff handed
\* to apply_changes is the one the latest Review captured from the editor,
\* whatever the editor holds at the moment of the click.
C1_WriteOnlyOnConfirm ==
  ops # <<>> =>
    /\ Confirmed
    /\ applied.shown
    /\ applied.reviewed # None
    /\ applied.diff =
         get_changes_from_editor(0, (0 :> applied.reviewed), applied.original_before)

\* a Confirm that wrote, clicked after the editor was changed since the Review
C1_Witness ==
  /\ Confirmed
  /\ ops # <<>>
  /\ applied.reviewed # None
  /\ applied.edited_since

(* ---------------------------------------------------------------------- *)
\* C2: every change type the diff carries has its operation attempted, whether
\* or not the operation of another change type failed.
C2_TypesIndependent ==
  Confirmed =>
    /\ ~DfEmpty(applied.diff.deleted) => Len(OpsOf("delete")) = 1
    /\ Len(OpsOf("update")) = EditedCount(applied.diff)
    /\ ~DfEmpty(applied.diff.added) => Len(OpsOf("insert")) = 1

(* ---------------------------------------------------------------------- *)
\* A Review has captured a diff that is still held in changes_to_confirm:
\* reviewed is the change description it read, original_data the original
\* table it read (unchanged since).
ReviewedNow == reviewed # None /\ changes_to_confirm # None

\* the value as the editor gave it; a date string that parses stands for its
\* timestamp
AsGiven(c, v) ==
  IF c = "TIMESTAMP" /\ v \in DOMAIN ParseTable THEN ParseTable[v] ELSE v

Parsed(c, v) == IF c = "TIMESTAMP" THEN ToDatetime(v) ELSE v

\* 'added' holds the added_rows entries: one row per entry, in order, with the
\* entry's cells (as Conv gives them) and nothing else
AddedHolds(diff, widget, Conv(_, _)) ==
  /\ Len(diff.added.rows) = Len(widget.added_rows)
  /\ diff.added.columns = UnionKeys(widget.added_rows)
  /\ \A i \in 1..Len(widget.added_rows) :
       \A c \in diff.added.columns :
         IF c \in DOMAIN widget.added_rows[i]
         THEN diff.added.rows[i].cells[c] = Conv(c, widget.added_rows[i][c])
         ELSE IsNa(diff.added.rows[i].cells[c])

\* each edit carries the untouched original row as pre-image and, as
\* post-image, that row with exactly the named cells replaced
EditedHolds(diff, widget, original_df, Conv(_, _)) ==
  IF Len(widget.edited_rows) = 0 THEN diff.edited = EmptyDict
  ELSE
    /\ diff.edited # EmptyDict
    /\ Len(diff.edited.original.rows) = Len(widget.edited_rows)
    /\ Len(diff.edited.new.rows) = Len(widget.edited_rows)
    /\ diff.edited.new.columns = original_df.columns
    /\ \A k \in 1..Len(widget.edited_rows) :
         LET entry == widget.edited_rows[k]
             pre == diff.edited.original.rows[k]
             post == diff.edited.new.rows[k]
         IN /\ pre = original_df.rows[entry.idx + 1]
            /\ post.index = original_df.rows[entry.idx + 1].index
            /\ \A c \in original_df.columns :
                 post.cells[c] = IF c \in DOMAIN entry.changes
                                 THEN Conv(c, entry.changes[c])
                                 ELSE pre.cells[c]

\* 'deleted' holds the original rows at the deleted positions
DeletedHolds(diff, widget, original_df) ==
  /\ Len(diff.deleted.rows) = Len(widget.deleted_rows)
  /\ \A k \in 1..Len(widget.deleted_rows) :
       diff.deleted.rows[k] = original_df.rows[widget.deleted_rows[k] + 1]

Request(op, where, payload) == [op |-> op, where |-> where, payload |-> payload]

Requests(log) ==
  [k \in 1..Len(log) |-> Request(log[k].op, log[k].where, log[k].payload)]

WithoutPk(cells) == [c \in (DOMAIN cells) \ {PK_COLUMN} |-> ToSnow(cells[c])]

WithoutPkRaw(cells) == [c \in (DOMAIN cells) \ {PK_COLUMN} |-> cells[c]]

ExpectedRequests(diff) ==
  (IF Len(diff.deleted.rows) > 0
   THEN <<Request("delete",
                  [k \in 1..Len(diff.deleted.rows) |->
                     diff.deleted.rows[k].cells[PK_COLUMN]],
                  <<>>)>>
   ELSE <<>>)
  \o [k \in 1..EditedCount(diff) |->
        Request("update", <<diff.edited.original.rows[k].cells[PK_COLUMN]>>,
                <<WithoutPk(diff.edited.new.rows[k].cells)>>)]
  \o (IF Len(diff.added.rows) > 0
      THEN <<Request("insert", <<>>,
                     [k \in 1..Len(diff.added.rows) |->
                        WithoutPkRaw(diff.added.rows[k].cells)])>>
      ELSE <<>>)

\* C4: when no operation fails, the operations issued are exactly one delete
\* over the deleted rows' keys (none without deleted rows), one update per
\* edited row, one insert carrying all added rows (none without added rows).
C4_OperationsIssued ==
  (Confirmed /\ AllOk) => Requests(ops) = ExpectedRequests(applied.diff)

(* ---------------------------------------------------------------------- *)
\* C5: apply_changes returns a results record in which every failed operation
\* left exactly one message and no count, a failed update stops neither the
\* later updates nor the insert, deleted is the delete's row count, edited the
\* sum over the successful updates, added the number of added rows if the
\* insert succeeded and 0 otherwise.
C5_ResultsAccumulate ==
  Confirmed =>
    /\ Len(results.errors) = Cardinality(Failed)
    /\ results.deleted = SumN(OpsOf("delete"))
    /\ results.edited = SumN(OpsOf("update"))
    /\ results.added = IF \E k \in 1..Len(ops) : ops[k].op = "insert" /\ ops[k].ok
                       THEN Len(applied.diff.added.rows) ELSE 0
    /\ (\A k \in 1..Len(ops) : ops[k].op = "delete" => ops[k].ok) =>
         /\ Len(OpsOf("update")) = EditedCount(applied.diff)
         /\ ~DfEmpty(applied.diff.added) => Len(OpsOf("insert")) = 1

\* an update failed and a later operation was still issued and succeeded
C5_Witness ==
  /\ Confirmed
  /\ \E j, k \in 1..Len(ops) :
       j < k /\ ops[j].op = "update" /\ ~ops[j].ok /\ ops[k].ok /\ ops[k].n > 0

(* ---------------------------------------------------------------------- *)
\* C6: no update assigns the key column, each update selects its row by the
\* key the row has in the original snapshot, no insert supplies a key, and
\* every row of the table has the key it was created with.
C6_PrimaryKeyImmutable ==
  /\ \A r \in table : r.cells[PK_COLUMN] = CreatedPk(r.rid)
  /\ \A k \in 1..Len(ops) :
       /\ ops[k].op = "update" => PK_COLUMN \notin DOMAIN ops[k].payload[1]
       /\ ops[k].op = "insert" =>
            \A j \in 1..Len(ops[k].payload) : PK_COLUMN \notin DOMAIN ops[k].payload[j]
  /\ Confirmed =>
       \A k \in 1..Len(OpsOf("update")) :
         OpsOf("update")[k].where =
           <<applied.diff.edited.original.rows[k].cells[PK_COLUMN]>>

\* an update that matched a row was issued for a diff whose edit names the key
\* column
C6_Witness ==
  /\ Confirmed
  /\ HasEdits(applied.diff)
  /\ \E k \in 1..Len(applied.diff.edited.new.rows) :
       /\ applied.diff.edited.new.rows[k].cells[PK_COLUMN] #
            applied.diff.edited.original.rows[k].cells[PK_COLUMN]
       /\ \E j \in 1..Len(ops) :
            /\ ops[j].op = "update" /\ ops[j].ok /\ ops[j].n = 1
            /\ ops[j].where = <<applied.diff.edited.original.rows[k].index>>

(* ---------------------------------------------------------------------- *)
\* the styling the confirmation step computes for the edited rows (line 216)
Styled ==
  style_changed_cells(changes_to_confirm.edited.new, changes_to_confirm.edited.original)

StyleRendered == ConfirmationShown /\ HasEdits(changes_to_confirm)

\* two cells differ, two missing values being equal and a missing value
\* differing from a present one
Differs(a, b) ==
  IF IsNa(a) /\ IsNa(b) THEN FALSE
  ELSE IF IsNa(a) \/ IsNa(b) THEN TRUE
  ELSE a # b

\* C7: a cell of the post-image is highlighted exactly when it differs from
\* the same cell of the pre-image, every other cell has the empty style, and
\* the styling has the rows and columns of the post-image.
C7_ChangedCellsHighlighted ==
  StyleRendered =>
    LET new_df == changes_to_confirm.edited.new
        pre == changes_to_confirm.edited.original
    IN /\ Styled.columns = new_df.columns
       /\ Len(Styled.rows) = Len(new_df.rows)
       /\ \A i \in 1..Len(new_df.rows) :
            /\ Styled.rows[i].index = new_df.rows[i].index
            /\ \A c \in new_df.columns :
                 Styled.rows[i].cells[c] =
                   IF Differs(new_df.rows[i].cells[c], pre.rows[i].cells[c])
                   THEN Yellow ELSE ""

\* the confirmation step shows an edit that left a missing cell missing
C7_Witness ==
  /\ StyleRendered
  /\ \E i \in 1..Len(changes_to_confirm.edited.new.rows) :
       /\ IsNa(changes_to_confirm.edited.new.rows[i].cells["TIMESTAMP"])
       /\ IsNa(changes_to_confirm.edited.original.rows[i].cells["TIMESTAMP"])
       /\ Styled.rows[i].cells["BATCH_NAME"] = Yellow

(* ---------------------------------------------------------------------- *)
\* C8: a Cancel issues nothing against the table, leaves the table and
\* original_data as they were, clears show_confirmation and
\* changes_to_confirm, drops the current editor key and moves to the next
\* one, and a Review right after it detects no change.
C8_CancelDiscards ==
  [][event' = "cancel" =>
       /\ ops' = <<>>
       /\ table' = table
       /\ original_data' = original_data
       /\ show_confirmation' = FALSE
       /\ changes_to_confirm' = None
       /\ editor_instance_id' = editor_instance_id + 1
       /\ editor_instance_id \notin DOMAIN session_widgets'
       /\ NoChangesDetected(
            get_changes_from_editor(editor_instance_id', session_widgets',
                                    original_data'))]_vars

\* a Cancel of a pending diff
C8_Witness == event = "cancel" /\ editor_instance_id > 0 /\ n_ops > 0

(* ---------------------------------------------------------------------- *)
\* C9: after a Confirm, whatever failed, the page is back in the editor state:
\* show_confirmation False, changes_to_confirm None, original_data re-fetched
\* from the table, the editor moved to the next key; the diff cannot be
\* applied a second time.
C9_AppliedAtMostOnce ==
  Confirmed =>
    /\ show_confirmation = FALSE
    /\ changes_to_confirm = None
    /\ original_data = get_data(table)
    /\ editor_instance_id = applied.instance_before + 1

(* ---------------------------------------------------------------------- *)
\* the keys of the rows a diff both edits and deletes
EditedAndDeleted(diff) ==
  IF HasEdits(diff)
  THEN {diff.edited.new.rows[k].index : k \in 1..Len(diff.edited.new.rows)}
         \cap {diff.deleted.rows[k].index : k \in 1..Len(diff.deleted.rows)}
  ELSE {}

\* delete first, then the updates, then the insert
InOrder ==
  \A j, k \in 1..Len(ops) :
    j < k => /\ ops[k].op # "delete"
             /\ ops[j].op # "insert"

DeletedThenUpdated(diff) ==
  \A pk \in EditedAndDeleted(diff) :
    /\ \A r \in table : r.cells[PK_COLUMN] # pk
    /\ \E k \in 1..Len(ops) :
         ops[k].op = "update" /\ ops[k].where = <<pk>> /\ ops[k].n = 0
    /\ results.edited < EditedCount(diff)

====
